---- MODULE Spec2Model ----
(***************************************************************************)
(* Model of hana2py: the HierarchyTable class (HierarchyTable.py), which   *)
(* flattens an SAP BW parent/child hierarchy into a generated table, and   *)
(* the helpers millify and execute_query (utilities.py).                   *)
(*                                                                         *)
(* SQL text is modelled by its structure: a CASE ladder is a sequence of   *)
(* WHEN branches, a join chain a sequence of joins, and the relational     *)
(* engine is modelled by evaluating these over the rows of the source      *)
(* table.  SQL NULL is the value NULL for strings and 0 for the integer    *)
(* columns (node ids start at 1).                                          *)
(***************************************************************************)
EXTENDS Integers, Sequences, FiniteSets, TLC

\* ------------------------------------------------------------------ bounds
MaxNodes == 4
MaxRuns == 2
MaxLimbs == 5
MaxHighestLevel == 11

\* --------------------------------------------------------------- constants
NULL == "NULL"
Engine == "ENGINE"
hieid == "A"
OtherHieid == "B"
DropQuery == "DROP TABLE"
CreateQuery == "CREATE TABLE AS SELECT"
DroppedMessage == "Old table has been dropped."
CreatedMessage == "Table has been created."

Max(a, b) == IF a > b THEN a ELSE b
Min(a, b) == IF a < b THEN a ELSE b

\* Python str() of a non-negative int: its decimal digits.
Digits == <<"0", "1", "2", "3", "4", "5", "6", "7", "8", "9">>
RECURSIVE str(_)
str(n) == IF n < 10 THEN Digits[n + 1] ELSE str(n \div 10) \o Digits[(n % 10) + 1]

\* ------------------------------------------------------------ source table
NodeName(k) == IF k = 1 THEN "World" ELSE IF k = 2 THEN "EMEA"
               ELSE IF k = 3 THEN "ZA" ELSE "N" \o str(k)

NullRow == [NODEID |-> 0, PARENTID |-> 0, TLEVEL |-> 0, HIEID |-> NULL, NODENAME |-> NULL]

\* A row of another hierarchy instance stored in the same source table; its
\* node id collides with the root of the hierarchy being flattened.
ForeignRows == {[NODEID |-> 1, PARENTID |-> 0, TLEVEL |-> 1, HIEID |-> OtherHieid, NODENAME |-> "Other"]}

\* Parent functions of the trees over nodes 1..MaxNodes rooted at node 1.
ParentFns == {p \in [1..MaxNodes -> 0..MaxNodes] : \A k \in 1..MaxNodes : p[k] < k /\ (p[k] = 0 <=> k = 1)}

RECURSIVE DepthOf(_, _)
DepthOf(p, k) == IF p[k] = 0 THEN 1 ELSE 1 + DepthOf(p, p[k])

SourceRow(p, k) == [NODEID |-> k, PARENTID |-> p[k], TLEVEL |-> DepthOf(p, k), HIEID |-> hieid, NODENAME |-> NodeName(k)]

\* The source tables the model starts from: a tree of hierarchy A of which any
\* subset of the rows is stored, next to the rows of the other hierarchy.
Sources == {{SourceRow(p, k) : k \in present} \cup ForeignRows : p \in ParentFns, present \in SUBSET (1..MaxNodes)}

VARIABLES src, tbl, pc, ret, level, n_row, highest_level,
          query, call, runs, sent, failed, brokenPipes, snap, srcChanged,
          num, mn_name, text_row, node_text, NODETEXT

vars == <<src, tbl, pc, ret, level, n_row, highest_level,
          query, call, runs, sent, failed, brokenPipes, snap, srcChanged,
          num, mn_name, text_row, node_text, NODETEXT>>

\* -------------------------------------------------- _find_highest_level
\* select count(*) from table where HIEID = hieid and TLEVEL = level
CountQuery(rows, lv) == Cardinality({r \in rows : r.HIEID = hieid /\ r.TLEVEL = lv})

\* ------------------------------------------------------ _get_left_joins
JoinTable(lv, highest) == IF lv = highest THEN "F" ELSE "H" \o str(lv + 1)

\* range(highest_level - 1, 0, -1): levels highest, highest-1, .., 1
_get_left_joins(M) ==
    LET highest == M - 1
    IN [n \in 1..Max(highest, 0) |->
          LET lv == highest - n + 1
          IN [alias |-> "H" \o str(lv), on_nodeid_of |-> JoinTable(lv, highest), same_hieid_as |-> "F"]]

\* --------------------------------------------------- _get_generated_loop
WhenLevelFromZero(M, i) == M - i
WhenLevel(M, i) == M - i + 1
NodeLevelUnshifted(i, k) == i
NodeLevel(i, k) == i + k
ColLevelOfRow(lv) == lv
ColLevel(lv) == lv - 1
InnerRange(j) == 1..(j - 1)
ElseNull == NULL
ElseValue == " "

\* One CASE F.TLEVEL ladder per j in range(highest_level, 1, -1); k counts the
\* ladders already emitted; the alias is L<col_level> of the last inner step.
_get_generated_loop(M) ==
    [n \in 1..Max(M - 1, 0) |->
       LET j == M - n + 1
           k == n - 1
           last == CHOOSE i \in InnerRange(j) : \A i2 \in InnerRange(j) : i2 <= i
       IN [whens |-> [i \in InnerRange(j) |-> [level |-> WhenLevel(M, i), then |-> "H" \o str(NodeLevel(i, k))]],
           else |-> ElseValue,
           alias |-> "L" \o str(ColLevel(WhenLevel(M, last)))]]

\* ------------------------------------------------- relational evaluation
\* The row bound to a table alias; an alias the FROM clause does not define
\* has no row (the engine rejects the statement).
AliasRow(env, a) == IF a \in DOMAIN env THEN env[a] ELSE NullRow

\* LEFT OUTER JOIN table H<level> ON H<level>.NODEID = <join_table>.PARENTID
\*                               AND H<level>.HIEID = F.HIEID
JoinMatches(rows, jn, env) ==
    {r \in rows : /\ AliasRow(env, jn.on_nodeid_of) # NullRow
                  /\ AliasRow(env, jn.on_nodeid_of).PARENTID # 0
                  /\ r.NODEID = AliasRow(env, jn.on_nodeid_of).PARENTID
                  /\ r.HIEID = AliasRow(env, jn.same_hieid_as).HIEID}

\* The alias bindings the join chain produces for base row F: each join binds
\* its alias to every matching row, or to the null row when none matches.
RECURSIVE EvalJoins(_, _, _, _)
EvalJoins(rows, joins, idx, env) ==
    IF idx > Len(joins) THEN {env}
    ELSE LET matches == JoinMatches(rows, joins[idx], env)
             bound == IF matches = {} THEN {NullRow} ELSE matches
         IN UNION {EvalJoins(rows, joins, idx + 1, env @@ (joins[idx].alias :> r)) : r \in bound}

JoinedRows(rows, joins, F) == EvalJoins(rows, joins, 1, "F" :> F)

\* (CASE F.TLEVEL WHEN <level> THEN H<node_level>.NODENAME ... ELSE ' ' END)
RECURSIVE CaseFrom(_, _, _)
CaseFrom(col, env, idx) ==
    IF idx > Len(col.whens) THEN col.else
    ELSE IF env["F"].TLEVEL = col.whens[idx].level
         THEN AliasRow(env, col.whens[idx].then).NODENAME
         ELSE CaseFrom(col, env, idx + 1)

CaseValue(col, env) == CaseFrom(col, env, 1)

\* The base row set F of the main query: the rows of the hierarchy id.
BaseRows(rows) == {r \in rows : r.HIEID = hieid}

\* The rows the generation query selects: one per base row and alias binding,
\* with the columns of the generated loop in the order emitted.
SelectRows(q, rows) ==
    {[NODEID |-> env["F"].NODEID, TLEVEL |-> env["F"].TLEVEL,
      cols |-> [c \in 1..Len(q.generated_loop) |->
                  [name |-> q.generated_loop[c].alias, value |-> CaseValue(q.generated_loop[c], env)]]]
       : env \in UNION {JoinedRows(rows, q.left_join, F) : F \in BaseRows(rows)}}

\* ------------------------------------------- _create_hierarchy_table_query
_get_main_table_query(M) == [built |-> TRUE, highest_level |-> M, generated_loop |-> _get_generated_loop(M), left_join |-> _get_left_joins(M)]

NoQuery == [built |-> FALSE, highest_level |-> 0, generated_loop |-> <<>>, left_join |-> <<>>]

\* ------------------------------------------------------------ the engine
Absent == [present |-> FALSE, run |-> 0, rows |-> {}]

\* engine.dialect.has_table(engine, generated_table_name)
has_table == tbl.present

\* The effect of a statement the engine executed successfully.
Execute(stmt) == IF stmt = DropQuery THEN Absent
                 ELSE [present |-> TRUE, run |-> runs, rows |-> SelectRows(query, src)]

\* What con.execute(stmt) can do: succeed, lose the connection, or fail with
\* another database error.  CREATE TABLE of an existing table cannot succeed.
Outcomes(stmt) == IF stmt = CreateQuery /\ tbl.present THEN {"BrokenPipeError", "DatabaseError"}
                  ELSE {"ok", "BrokenPipeError", "DatabaseError"}

\* The arguments of one invocation of execute_query.
Call(engine, q, message, retry) == [engine |-> engine, query |-> q, message |-> message, retry |-> retry]

\* The invocation made on a lost connection, execute_query(query, message,
\* retry): the three values bind to the parameters engine, query and message,
\* and retry takes its default.
RetryCall(c, retry) == Call(c.query, c.message, retry, 0)

NoCall == Call(Engine, "", "", 0)

\* ------------------------------------------------------- _get_node_text
TLevelUnpadded(lv) == str(lv)

\* [str(level) if level > 9 else '0' + str(level)][0]
TLevelString(lv) == IF lv > 9 THEN str(lv) ELSE "0" \o str(lv)

\* range(2, highest_level + 1)
NodeTextRange(M) == 2..M

\* select *, case when node_text is null then case
\*     when tlevel='<tlevel>' then t<level - 1> ...  else null end
\*   else node_text end as NODETEXT
_get_node_text(M) ==
    [built |-> TRUE,
     whens |-> [n \in 1..Cardinality(NodeTextRange(M)) |->
                  LET lv == n + 1
                  IN [tlevel |-> TLevelString(lv), then |-> "t" \o str(lv - 1)]],
     else |-> NULL]

NoNodeText == [built |-> FALSE, whens |-> <<>>, else |-> NULL]

\* The columns t1..t(highest_level - 1) the text joins add to a row
\* (select_text, range(1, highest_level)).
TextColumns(M) == {"t" \o str(lv) : lv \in 1..(M - 1)}

\* The value of a column of the row; a column the row does not have is NULL.
TextColumn(row, name) == IF name \in DOMAIN row.t THEN row.t[name] ELSE NULL

\* The inner searched CASE: the first branch whose tlevel equals the row's.
RECURSIVE NodeTextCaseFrom(_, _, _)
NodeTextCaseFrom(expr, row, idx) ==
    IF idx > Len(expr.whens) THEN expr.else
    ELSE IF row.tlevel = expr.whens[idx].tlevel
         THEN TextColumn(row, expr.whens[idx].then)
         ELSE NodeTextCaseFrom(expr, row, idx + 1)

\* case when node_text is null then <inner case> else node_text end
NodeTextValue(expr, row) ==
    IF row.node_text = NULL THEN NodeTextCaseFrom(expr, row, 1) ELSE row.node_text

\* The tlevel strings of the rows the expression is evaluated on: every
\* two-character string "00".."19", and the unpadded "1", "2", "3".
TLevelStrings == {Digits[a + 1] \o Digits[b + 1] : a \in 0..1, b \in 0..9} \cup {"1", "2", "3"}

\* The rows of the text-resolved result for maximum depth M: a tlevel string,
\* a node_text that is NULL or a text, and a text in each of t1..t(M-1).
TextRows(M) == {[tlevel |-> tl, node_text |-> nt, t |-> [name \in TextColumns(M) |-> "text " \o name]]
                  : tl \in TLevelStrings, nt \in {NULL, "Own text"}}

NoTextRow == [tlevel |-> "00", node_text |-> NULL, t |-> [name \in {} |-> NULL]]

\* ---------------------------------------------------------------- Init
FirstLevelKept == level
FirstLevel == 1

Init ==
    /\ src \in Sources
    /\ tbl = Absent
    /\ pc = "start"
    /\ ret = "done"
    /\ level = 1
    /\ n_row = 1
    /\ highest_level = -1
    /\ query = NoQuery
    /\ call = NoCall
    /\ runs = 0
    /\ sent = <<>>
    /\ failed = FALSE
    /\ brokenPipes = 0
    /\ snap = Absent
    /\ srcChanged = FALSE
    /\ num = <<0>>
    /\ mn_name = ""
    /\ text_row = NoTextRow
    /\ node_text = NoNodeText
    /\ NODETEXT = NULL

\* ------------------------------------------------------------- actions
\* HierarchyTable(...): __init__ up to the call of _find_highest_level, and the
\* first two assignments of _find_highest_level.
Construct ==
    /\ pc \in {"start", "done"}
    /\ runs < MaxRuns
    /\ runs' = runs + 1
    /\ snap' = tbl
    /\ level' = FirstLevel
    /\ n_row' = 1
    /\ highest_level' = -1
    /\ query' = NoQuery
    /\ sent' = <<>>
    /\ pc' = "probe"
    /\ UNCHANGED <<src, tbl, ret, call, failed, brokenPipes, srcChanged, num, mn_name, text_row, node_text, NODETEXT>>

\* One test of the while condition of _find_highest_level: either one more
\* count query, or the end of the loop and the return of level - 2.
FindHighestLevel ==
    /\ pc = "probe"
    /\ IF n_row > 0
       THEN /\ n_row' = CountQuery(src, level)
            /\ level' = level + 1
            /\ UNCHANGED <<highest_level, pc>>
       ELSE /\ highest_level' = level - 2
            /\ pc' = "drop"
            /\ UNCHANGED <<n_row, level>>
    /\ UNCHANGED <<src, tbl, ret, query, call, runs, sent, failed, brokenPipes, snap, srcChanged, num, mn_name, text_row, node_text, NODETEXT>>

\* create_hierarchy_table called again on the constructed object: the cached
\* highest_level is used.
CreateAgain ==
    /\ pc = "done"
    /\ runs < MaxRuns
    /\ runs' = runs + 1
    /\ snap' = tbl
    /\ sent' = <<>>
    /\ pc' = "drop"
    /\ UNCHANGED <<src, tbl, ret, level, n_row, highest_level, query, call, failed, brokenPipes, srcChanged, num, mn_name, text_row, node_text, NODETEXT>>

\* _drop_table
DropTable ==
    /\ pc = "drop"
    /\ IF has_table
       THEN /\ call' = Call(Engine, DropQuery, DroppedMessage, 0)
            /\ brokenPipes' = 0
            /\ ret' = "create"
            /\ pc' = "exec"
       ELSE /\ pc' = "create"
            /\ UNCHANGED <<call, brokenPipes, ret>>
    /\ UNCHANGED <<src, tbl, level, n_row, highest_level, query, runs, sent, failed, snap, srcChanged, num, mn_name, text_row, node_text, NODETEXT>>

\* create_hierarchy_table after _drop_table: build the query and hand it to
\* execute_query.
CreateTable ==
    /\ pc = "create"
    /\ query' = _get_main_table_query(highest_level)
    /\ call' = Call(Engine, CreateQuery, CreatedMessage, 0)
    /\ brokenPipes' = 0
    /\ ret' = "done"
    /\ pc' = "exec"
    /\ UNCHANGED <<src, tbl, level, n_row, highest_level, runs, sent, failed, snap, srcChanged, num, mn_name, text_row, node_text, NODETEXT>>

\* One invocation of execute_query with the arguments in call.  A value that
\* is not an engine has no connect(): the AttributeError is caught, its text
\* does not name BrokenPipeError, and the invocation returns.
ExecuteQuery ==
    /\ pc = "exec"
    /\ IF call.retry < 3
       THEN IF call.engine # Engine
            THEN /\ pc' = ret
                 /\ UNCHANGED <<tbl, call, sent, failed, brokenPipes>>
            ELSE \E o \in Outcomes(call.query) :
                   /\ sent' = Append(sent, call.query)
                   /\ IF o = "ok"
                      THEN /\ tbl' = Execute(call.query)
                           /\ pc' = ret
                           /\ UNCHANGED <<call, failed, brokenPipes>>
                      ELSE IF o = "BrokenPipeError"
                      THEN /\ call' = RetryCall(call, call.retry + 1)
                           /\ brokenPipes' = brokenPipes + 1
                           /\ failed' = TRUE
                           /\ UNCHANGED <<tbl, pc>>
                      ELSE /\ failed' = TRUE
                           /\ pc' = ret
                           /\ UNCHANGED <<tbl, call, brokenPipes>>
       ELSE /\ pc' = ret
            /\ UNCHANGED <<tbl, call, sent, failed, brokenPipes>>
    /\ UNCHANGED <<src, ret, level, n_row, highest_level, query, runs, snap, srcChanged, num, mn_name, text_row, node_text, NODETEXT>>

\* The owner of the source table deletes a row of the hierarchy between runs.
ChangeSource ==
    /\ pc = "done"
    /\ ~srcChanged
    /\ \E r \in BaseRows(src) : src' = src \ {r}
    /\ srcChanged' = TRUE
    /\ UNCHANGED <<tbl, pc, ret, level, n_row, highest_level, query, call, runs, sent, failed, brokenPipes, snap, num, mn_name, text_row, node_text, NODETEXT>>

Next == Construct \/ FindHighestLevel \/ CreateAgain \/ DropTable \/ CreateTable \/ ExecuteQuery \/ ChangeSource

Spec == Init /\ [][Next]_vars

\* --------------------------------------------------------------- millify
\* A number is written in base 1000, most significant limb first: <<1, 200, 0>>
\* is 1 200 000.  Every number below 2^53 = 9 007 199 254 740 992 is its own
\* float, and for these log10, the division and the rounding of the format
\* are exact enough to agree with the arithmetic on limbs.
MILLNAMES == <<"", "k", "mn", "bn", "tn">>

LimbVals == {0, 1, 5, 200, 499, 500, 501, 999}

ExactFloat(limbs) == Len(limbs) <= 5 \/ (Len(limbs) = 6 /\ limbs[1] <= 8)

MillifyInputs == {<<0>>} \cup {limbs \in UNION {[1..n -> LimbVals] : n \in 1..MaxLimbs} : limbs[1] # 0 /\ ExactFloat(limbs)}

RECURSIVE LimbsValue(_)
LimbsValue(limbs) == IF limbs = <<>> THEN 0 ELSE 1000 * LimbsValue(SubSeq(limbs, 1, Len(limbs) - 1)) + limbs[Len(limbs)]

\* int(math.floor(0 if num == 0 else math.log10(abs(num)) / 3))
FloorLog10Div3(limbs) == IF limbs = <<0>> THEN 0 ELSE Len(limbs) - 1

\* max(0, min(len(MILLNAMES) - 1, ...))
Millidx(limbs) == Max(0, Min(Len(MILLNAMES) - 1, FloorLog10Div3(limbs)))

\* num / 10**(3 * millidx): the integer part and the fraction, in limbs.
Quotient(limbs, millidx) == [int |-> LimbsValue(SubSeq(limbs, 1, Len(limbs) - millidx)),
                             frac |-> SubSeq(limbs, Len(limbs) - millidx + 1, Len(limbs))]

\* The fraction against one half: -1 below, 0 equal, 1 above.
CompareHalf(frac) ==
    IF frac = <<>> THEN -1
    ELSE IF frac[1] > 500 THEN 1
    ELSE IF frac[1] < 500 THEN -1
    ELSE IF \A n \in 2..Len(frac) : frac[n] = 0 THEN 0 ELSE 1

FormatF0Truncated(x) == str(x.int)

\* '{:.0f}'.format(x): x rounded to the nearest integer, a tie to the even one.
FormatF0(x) ==
    LET c == CompareHalf(x.frac)
    IN str(IF c > 0 \/ (c = 0 /\ x.int % 2 = 1) THEN x.int + 1 ELSE x.int)

millify(limbs) == FormatF0(Quotient(limbs, Millidx(limbs))) \o MILLNAMES[Millidx(limbs) + 1]

InitMillify ==
    /\ num \in MillifyInputs
    /\ mn_name = ""
    /\ text_row = NoTextRow
    /\ node_text = NoNodeText
    /\ NODETEXT = NULL
    /\ pc = "millify"
    /\ src = ForeignRows
    /\ tbl = Absent
    /\ ret = "done"
    /\ level = 1
    /\ n_row = 1
    /\ highest_level = -1
    /\ query = NoQuery
    /\ call = NoCall
    /\ runs = 0
    /\ sent = <<>>
    /\ failed = FALSE
    /\ brokenPipes = 0
    /\ snap = Absent
    /\ srcChanged = FALSE

Millify ==
    /\ pc = "millify"
    /\ mn_name' = millify(num)
    /\ pc' = "millified"
    /\ UNCHANGED <<src, tbl, ret, level, n_row, highest_level, query, call, runs, sent, failed, brokenPipes, snap, srcChanged, num, text_row, node_text, NODETEXT>>

NextMillify == Millify

SpecMillify == InitMillify /\ [][NextMillify]_vars

\* ------------------------------------------ NODETEXT as a pure function
InitNodeText ==
    /\ highest_level \in 0..MaxHighestLevel
    /\ text_row \in TextRows(highest_level)
    /\ node_text = NoNodeText
    /\ NODETEXT = NULL
    /\ pc = "node_text"
    /\ num = <<0>>
    /\ mn_name = ""
    /\ src = ForeignRows
    /\ tbl = Absent
    /\ ret = "done"
    /\ level = 1
    /\ n_row = 1
    /\ query = NoQuery
    /\ call = NoCall
    /\ runs = 0
    /\ sent = <<>>
    /\ failed = FALSE
    /\ brokenPipes = 0
    /\ snap = Absent
    /\ srcChanged = FALSE

\* _get_node_text builds the expression and the engine evaluates it on a row.
GetNodeText ==
    /\ pc = "node_text"
    /\ node_text' = _get_node_text(highest_level)
    /\ NODETEXT' = NodeTextValue(_get_node_text(highest_level), text_row)
    /\ pc' = "node_text_done"
    /\ UNCHANGED <<src, tbl, ret, level, n_row, highest_level, query, call, runs, sent, failed, brokenPipes, snap, srcChanged, num, mn_name, text_row>>

NextNodeText == GetNodeText

SpecNodeText == InitNodeText /\ [][NextNodeText]_vars

\* ===================================================================
\* Properties
\* ===================================================================
\* The depth invariant of the source: the parent of a depth-D node of the
\* hierarchy is a depth-(D-1) node of the same hierarchy; a depth-1 node has
\* no parent.
DepthInvariant(rows) ==
    \A r \in BaseRows(rows) :
       IF r.TLEVEL = 1 THEN r.PARENTID = 0
       ELSE \E p \in BaseRows(rows) : p.NODEID = r.PARENTID /\ p.TLEVEL = r.TLEVEL - 1

\* The greatest depth at which the hierarchy has a row (0 if it has none).
MaxDepth(rows) == IF BaseRows(rows) = {} THEN 0
                  ELSE CHOOSE d \in {r.TLEVEL : r \in BaseRows(rows)} : \A r \in BaseRows(rows) : r.TLEVEL <= d

\* The ancestor of row F at depth c, found by following PARENTID upwards.
RECURSIVE AncestorAt(_, _, _)
AncestorAt(rows, F, c) ==
    IF F.TLEVEL <= c THEN F
    ELSE AncestorAt(rows, CHOOSE p \in BaseRows(rows) : p.NODEID = F.PARENTID, c)

\* The ladders of the built query that are aliased L<c>.
LaddersOf(c) == {n \in 1..Len(query.generated_loop) : query.generated_loop[n].alias = "L" \o str(c)}

NodeNamesOf(rows) == {r.NODENAME : r \in rows}

\* C1: for a source that satisfies the depth invariant and has maximum depth
\* M, every base row F at depth d in 2..M and every column level c < d: the
\* L<c> CASE expression built for M, evaluated over the aliases of the join
\* chain built for M, is the node name of F's ancestor at depth c, and so
\* neither the blank sentinel nor NULL.
C1_AncestorNames ==
    (query.built /\ DepthInvariant(src) /\ MaxDepth(src) = query.highest_level) =>
      \A F \in BaseRows(src) : \A c \in 1..(F.TLEVEL - 1) :
         /\ LaddersOf(c) # {}
         /\ \A n \in LaddersOf(c) : \A env \in JoinedRows(src, query.left_join, F) :
               /\ CaseValue(query.generated_loop[n], env) = AncestorAt(src, F, c).NODENAME
               /\ CaseValue(query.generated_loop[n], env) \notin {" ", NULL}

\* The end-to-end scenario: World > EMEA > ZA flattened at maximum depth 3
\* gives the row of node 3 the columns L1 = World and L2 = EMEA.
C1_Witness ==
    /\ query.built /\ DepthInvariant(src) /\ MaxDepth(src) = query.highest_level
    /\ query.highest_level = 3
    /\ tbl.present
    /\ \E row \in tbl.rows : /\ row.NODEID = 3 /\ row.TLEVEL = 3
                             /\ row.cols[1] = [name |-> "L1", value |-> "World"]
                             /\ row.cols[2] = [name |-> "L2", value |-> "EMEA"]

\* C2: for maximum depth M >= 2, every base row at depth d in 1..M and every
\* column level c with d <= c <= M-1: the value of L<c> is the single-space
\* blank sentinel, never NULL and never a node name.
C2_BlankSentinel ==
    (query.built /\ query.highest_level >= 2) =>
      \A F \in BaseRows(src) : \A c \in 1..(query.highest_level - 1) :
         (1 <= F.TLEVEL /\ F.TLEVEL <= query.highest_level /\ F.TLEVEL <= c) =>
            /\ LaddersOf(c) # {}
            /\ \A n \in LaddersOf(c) : \A env \in JoinedRows(src, query.left_join, F) :
                  /\ CaseValue(query.generated_loop[n], env) = " "
                  /\ CaseValue(query.generated_loop[n], env) \notin {NULL} \cup NodeNamesOf(src)

\* A generated table of maximum depth 3 holding the row of a depth-2 node with
\* L1 = World and L2 blank.
C2_Witness ==
    /\ query.built /\ query.highest_level = 3
    /\ tbl.present
    /\ \E row \in tbl.rows : /\ row.TLEVEL = 2
                             /\ row.cols[1] = [name |-> "L1", value |-> "World"]
                             /\ row.cols[2] = [name |-> "L2", value |-> " "]

\* C3: for every highest_level M >= 2 the generated loop has exactly M-1
\* column expressions, aliased L1, L2, .., L(M-1) in that order, so each alias
\* occurs exactly once.
C3_ColumnAliases ==
    (query.built /\ query.highest_level >= 2) =>
      /\ Len(query.generated_loop) = query.highest_level - 1
      /\ \A n \in 1..Len(query.generated_loop) : query.generated_loop[n].alias = "L" \o str(n)
      /\ \A c \in 1..(query.highest_level - 1) : Cardinality(LaddersOf(c)) = 1

C3_Witness ==
    /\ query.built /\ query.highest_level = MaxNodes
    /\ Len(query.generated_loop) = MaxNodes - 1
    /\ query.generated_loop[MaxNodes - 1].alias = "L" \o str(MaxNodes - 1)

\* The state in which _find_highest_level has just returned to __init__.
ProbeReturned == pc = "drop" /\ ~query.built

\* C4: _find_highest_level returns 0 when the hierarchy id has no rows at
\* depth 1, and otherwise exactly the highest depth that has a positive row
\* count.
C4_HighestPopulatedDepth ==
    ProbeReturned =>
      highest_level = (IF CountQuery(src, 1) = 0 THEN 0 ELSE MaxDepth(src))

\* C5: when the depth prober yields 0, the construction fails fast: no
\* generation query is built and no DROP or CREATE statement is sent.
C5_FailFast ==
    (highest_level = 0 /\ pc \notin {"start", "probe"}) =>
      (~query.built /\ sent = <<>>)

\* C6: after create_hierarchy_table returns, whatever statements failed, the
\* generated table is either absent or present with the contents this run
\* built; it is never present with the contents of an earlier run.  Stated
\* for the runs over a hierarchy of maximum depth 2 or more, whose generated
\* table has level columns.
C6_FreshOrAbsent ==
    (pc = "done" /\ highest_level >= 2) => (~tbl.present \/ tbl.run = runs)

\* The statement handed to execute_query by the caller that is being served.
CallerQuery == IF ret = "create" THEN DropQuery ELSE CreateQuery

\* C7: after execute_query lost the connection (BrokenPipeError), the same
\* query is executed again against the same engine.
C7_RetrySameQuery ==
    (pc = "exec" /\ brokenPipes > 0) =>
      (call.engine = Engine /\ call.query = CallerQuery)

\* C8: running the generation twice against an unchanged source with every
\* statement succeeding leaves the table of the first run: the second run
\* finds the table, drops it and recreates it from the same generation query,
\* with identical rows and column values.
C8_Idempotent ==
    (pc = "done" /\ runs >= 2 /\ ~failed /\ ~srcChanged) =>
      /\ snap.present
      /\ sent = <<DropQuery, CreateQuery>>
      /\ tbl.present /\ tbl.run = runs
      /\ tbl.rows = snap.rows

C8_Witness ==
    /\ pc = "done" /\ runs = 2 /\ ~failed /\ ~srcChanged
    /\ sent = <<DropQuery, CreateQuery>>
    /\ highest_level >= 3
    /\ tbl.present /\ tbl.run = 2 /\ tbl.rows = snap.rows
    /\ Cardinality(tbl.rows) >= 3

\* The levels of the WHEN branches of ladder n.
WhenLevels(n) == {query.generated_loop[n].whens[i].level : i \in DOMAIN query.generated_loop[n].whens}

\* C10 as stated: in the loop built for maximum depth M, for every column
\* level c in 1..M-1 and source row depth d in 2..M, the WHEN branch for depth
\* d of column L<c> selects the node name of join alias H<(M-d)+(M-c)>.
C10_AliasIndexStated ==
    query.built =>
      LET M == query.highest_level
      IN \A c \in 1..(M - 1) : \A n \in LaddersOf(c) :
            \A i \in DOMAIN query.generated_loop[n].whens :
               LET w == query.generated_loop[n].whens[i]
               IN w.level \in 2..M => w.then = "H" \o str((M - w.level) + (M - c))

\* C10 amended: column L<c> has one WHEN branch for each source row depth d in
\* c+1..M and no other, and the branch for depth d selects the node name of
\* join alias H<(M-d)+c>, an alias the join chain H(M-1)..H1 defines.
C10_AliasIndex ==
    query.built =>
      LET M == query.highest_level
      IN \A c \in 1..(M - 1) :
            /\ LaddersOf(c) # {}
            /\ \A n \in LaddersOf(c) :
                 /\ WhenLevels(n) = (c + 1)..M
                 /\ Len(query.generated_loop[n].whens) = M - c
                 /\ \A i \in DOMAIN query.generated_loop[n].whens :
                      LET w == query.generated_loop[n].whens[i]
                      IN /\ w.then = "H" \o str((M - w.level) + c)
                         /\ \E jn \in DOMAIN query.left_join : query.left_join[jn].alias = w.then

\* A loop built for maximum depth 3 or more: the branch for depth M of column
\* L1 reads H1, where (M-d)+(M-c) would be M-1.
C10_Witness ==
    /\ query.built /\ query.highest_level >= 3
    /\ query.generated_loop[1].alias = "L1"
    /\ query.generated_loop[1].whens[1] = [level |-> query.highest_level, then |-> "H1"]

\* The index i of the suffix: 0 below 1000, else min(4, floor(log10(n)/3)),
\* which for a number of k+1 limbs (1000^k <= n < 1000^(k+1)) is min(4, k).
SuffixIndex(limbs) == IF Len(limbs) = 1 THEN 0 ELSE Min(4, Len(limbs) - 1)

\* lexicographic order of limb sequences of the same length
RECURSIVE LimbsLeq(_, _)
LimbsLeq(a, b) == \/ a = <<>>
                  \/ a[1] < b[1]
                  \/ a[1] = b[1] /\ LimbsLeq(Tail(a), Tail(b))

Half(len) == [n \in 1..len |-> IF n = 1 THEN 500 ELSE 0]

\* The integers nearest to n / 1000^i (both neighbours at a tie).
NearestIntegers(limbs, i) ==
    LET q == LimbsValue(SubSeq(limbs, 1, Len(limbs) - i))
        f == SubSeq(limbs, Len(limbs) - i + 1, Len(limbs))
    IN IF i = 0 THEN {q}
       ELSE {x \in {q, q + 1} : (x = q /\ LimbsLeq(f, Half(i))) \/ (x = q + 1 /\ LimbsLeq(Half(i), f))}

\* 1000^i
RECURSIVE Thousand(_)
Thousand(i) == IF i = 0 THEN 1 ELSE 1000 * Thousand(i - 1)

ZeroPad2(d) == Digits[(d \div 10) + 1] \o Digits[(d % 10) + 1]

\* The depths d in 2..M whose two-digit zero-padded string is the row's tlevel.
MatchingDepths(row, M) == {d \in 2..M : row.tlevel = ZeroPad2(d)}

\* C11: for maximum depth M >= 2 and every row of the text-resolved result,
\* NODETEXT is the pre-existing node_text when that is not null; otherwise
\* T<d-1> when the row's tlevel is the two-digit zero-padded string of a depth
\* d in 2..M; otherwise (depth 1, or a depth above M) null.
C11_NodeText ==
    (pc = "node_text_done" /\ highest_level >= 2) =>
      /\ Len(node_text.whens) = highest_level - 1
      /\ IF text_row.node_text # NULL THEN NODETEXT = text_row.node_text
         ELSE IF MatchingDepths(text_row, highest_level) # {}
         THEN \A d \in MatchingDepths(text_row, highest_level) :
                 /\ ("t" \o str(d - 1)) \in DOMAIN text_row.t
                 /\ NODETEXT = text_row.t["t" \o str(d - 1)]
         ELSE NODETEXT = NULL

\* A row at depth 10 of a hierarchy of maximum depth 10 or more, without a
\* node_text of its own: NODETEXT is the text of t9.
C11_Witness ==
    /\ pc = "node_text_done" /\ highest_level >= 10
    /\ text_row.node_text = NULL /\ text_row.tlevel = "10"
    /\ NODETEXT = "text t9"

====
